---- MODULE Spec2Model ----
(***************************************************************************)
(* State-machine model of resqpy's TriMeshStencil                          *)
(* (src/resqpy/surface/_tri_mesh_stencil.py): construction of the compact  *)
(* half-hexagon stencil from a radial pattern, and its application to the  *)
(* z values of a tri mesh with a weighted nanmean.                         *)
(*                                                                         *)
(* Floats are modelled in exact arithmetic: a float is a pair <<num, den>> *)
(* in lowest terms with den > 0; NaN is the pair <<0, 0>>.  Arrays are     *)
(* functions on 0-based index ranges, as in numpy.                         *)
(***************************************************************************)
EXTENDS Integers, Sequences, FiniteSets, TLC

(***************************************************************************)
(* Bounds of the model.                                                    *)
(***************************************************************************)
\* longest radial pattern enumerated exhaustively
MaxN == 3
\* largest tri mesh row count
MaxNj == 3
\* largest tri mesh column count
MaxNi == 3

(***************************************************************************)
(* Program constants.                                                      *)
(***************************************************************************)
\* len(pattern) > 50 logs a warning
LargePattern == 50
\* a ring i holds 6 * i points: pattern[i] /= float(6 * i)
RingFactor == 6

(***************************************************************************)
(* Exact float arithmetic.                                                 *)
(***************************************************************************)
Abs(x) == IF x < 0 THEN -x ELSE x

RECURSIVE GCD(_, _)
GCD(a, b) == IF b = 0 THEN a ELSE GCD(b, a % b)

NaN == <<0, 0>>

isnan(v) == v[2] = 0

\* the float num / den (den # 0), in lowest terms with a positive denominator
Flt(num, den) ==
    LET g == GCD(Abs(num), Abs(den))
        s == IF den < 0 THEN -1 ELSE 1
    IN  <<(s * num) \div g, (s * den) \div g>>

float(k) == <<k, 1>>

FAdd(x, y) ==
    IF isnan(x) \/ isnan(y) THEN NaN
    ELSE Flt(x[1] * y[2] + y[1] * x[2], x[2] * y[2])

FMul(x, y) ==
    IF isnan(x) \/ isnan(y) THEN NaN
    ELSE Flt(x[1] * y[1], x[2] * y[2])

\* x / y; the callers guard against y = 0.0
FDiv(x, y) ==
    IF isnan(x) \/ isnan(y) \/ y[1] = 0 THEN NaN
    ELSE Flt(x[1] * y[2], x[2] * y[1])

\* maths.isclose(x, 0.0) with the default rel_tol and abs_tol = 0.0: only 0.0 is close to 0.0
isclose0(x) == (~isnan(x)) /\ x[1] = 0

\* np.sum of the entries lo .. hi of a 1D array p (pairwise, as numpy sums)
RECURSIVE SumRange(_, _, _)
SumRange(p, lo, hi) ==
    IF hi < lo THEN float(0)
    ELSE IF lo = hi THEN p[lo]
    ELSE LET mid == (lo + hi) \div 2
         IN  FAdd(SumRange(p, lo, mid), SumRange(p, mid + 1, hi))

npsum(p, len) == SumRange(p, 0, len - 1)

(***************************************************************************)
(* TriMeshStencil.__init__                                                 *)
(***************************************************************************)
None == <<>>

PyLen(p) == Cardinality(DOMAIN p)

\* mutant of Normalised: every ring divided by 6, whatever its index
NormalisedFlatRing(pattern, n, normalise) ==
    LET t == SumRange(pattern, 0, n - 1)
        f == FDiv(normalise, t)
    IN  [i \in 0 .. n - 1 |->
            IF i = 0 THEN FMul(pattern[i], f)
            ELSE FDiv(FMul(pattern[i], f), float(RingFactor))]

\* pattern *= normalise / t, then pattern[i] /= float(6 * i) for i in 1 .. n - 1
Normalised(pattern, n, normalise) ==
    LET t == npsum(pattern, n)
        f == FDiv(normalise, t)
    IN  [i \in 0 .. n - 1 |->
            IF i = 0 THEN FMul(pattern[i], f)
            ELSE FDiv(FMul(pattern[i], f), float(RingFactor * i))]

\* mutant of StartIp: the column phase rounded up instead of down
StartIpRoundUp(n, jp) == IF jp = 0 THEN -(n - 1) ELSE -(n - 1) + ((jp + 1) \div 2)

\* start_ip of row jp of the half hex
StartIp(n, jp) == IF jp = 0 THEN -(n - 1) ELSE -(n - 1) + (jp \div 2)

\* row_length of row jp: 2n - 1 for jp = 0, decreased by one for every further row
RowLength(n, jp) == 2 * n - 1 - jp

\* the values of row jp of the half hex, 0-based, RowLength(n, jp) long
RowValues(pattern, n, jp) ==
    IF jp = 0
    THEN \* np.concatenate((np.flip(pattern[1:]), pattern))
         [x \in 0 .. 2 * n - 2 |-> IF x < n - 1 THEN pattern[n - 1 - x] ELSE pattern[x - (n - 1)]]
    ELSE LET row_length == RowLength(n, jp)
             sub_len == n - 1 - jp   \* size of pattern[jp + 1:]
         IN  [x \in 0 .. row_length - 1 |->
                 IF jp < n - 1 /\ x < sub_len
                 THEN pattern[jp + 1 + (sub_len - 1 - x)]            \* row_v[:sub_len] = np.flip(sub_p)
                 ELSE IF jp < n - 1 /\ x >= row_length - sub_len
                 THEN pattern[jp + 1 + (x - (row_length - sub_len))] \* row_v[-sub_len:] = sub_p
                 ELSE pattern[jp]]                                   \* np.full(row_length, pattern[jp])

\* the rectangular (n, 2n - 1) buffer, NaN in the slots beyond row_length
HalfHex(pattern, n) ==
    [jp \in 0 .. n - 1 |->
        [x \in 0 .. 2 * n - 2 |->
            IF x < RowLength(n, jp) THEN RowValues(pattern, n, jp)[x] ELSE NaN]]

NoStencil == [built |-> FALSE]

\* the object a successful construction returns
NewStencil(pattern0, normalise) ==
    LET n == PyLen(pattern0)
        pattern == IF normalise # None THEN Normalised(pattern0, n, normalise) ELSE pattern0
    IN  [built      |-> TRUE,
         n          |-> n,
         pattern    |-> pattern,
         start_ip   |-> [jp \in 0 .. n - 1 |-> StartIp(n, jp)],
         row_length |-> [jp \in 0 .. n - 1 |-> RowLength(n, jp)],
         half_hex   |-> HalfHex(pattern, n)]

\* mutant of PatternAccepted: a pattern of a single element passes
PatternAcceptedFromOne(pattern, normalise) ==
    /\ PyLen(pattern) > 0
    /\ ~ \E i \in DOMAIN pattern : isnan(pattern[i])
    /\ normalise # None => /\ ~isclose0(normalise)
                           /\ ~isclose0(npsum(pattern, PyLen(pattern)))

\* the assertions of the constructor, in source order
PatternAccepted(pattern, normalise) ==
    /\ PyLen(pattern) > 1
    /\ ~ \E i \in DOMAIN pattern : isnan(pattern[i])
    /\ normalise # None => /\ ~isclose0(normalise)
                           /\ ~isclose0(npsum(pattern, PyLen(pattern)))

LargeWarning(pattern) == PyLen(pattern) > LargePattern

(***************************************************************************)
(* TriMeshStencil.apply and apply_stencil_nanmean                          *)
(***************************************************************************)
\* mutant of Border: half the pattern length
BorderHalf(n) == n \div 2

\* border = self.n, raised to the next even number
Border(n) == IF n % 2 = 1 THEN n + 1 ELSE n

\* js_odd = (jp % 2) * j_odd, with j_odd = j % 2
JsOdd(jp, j) == (jp % 2) * (j % 2)

\* i_s = i + i_st + ip + js_odd
TapColumn(i, i_st, ip, js_odd) == i + i_st + ip + js_odd

\* the reads of the ip loop for one jp, in source order: row j - jp, then row j + jp if jp
RECURSIVE RowTaps(_, _, _, _, _, _, _)
RowTaps(start_ip, row_length, half_hex, j, i, jp, ip) ==
    IF ip >= row_length[jp] THEN <<>>
    ELSE LET i_s == TapColumn(i, start_ip[jp], ip, JsOdd(jp, j))
             s == half_hex[jp][ip]
             minus == [j_s |-> j - jp, i_s |-> i_s, jp |-> jp, ip |-> ip, s |-> s]
             plus == [j_s |-> j + jp, i_s |-> i_s, jp |-> jp, ip |-> ip, s |-> s]
         IN  (IF jp # 0 THEN <<minus, plus>> ELSE <<minus>>)
                 \o RowTaps(start_ip, row_length, half_hex, j, i, jp, ip + 1)

\* the reads of the jp loop for output cell (j, i), in source order
RECURSIVE CellTaps(_, _, _, _, _, _, _)
CellTaps(n, start_ip, row_length, half_hex, j, i, jp) ==
    IF jp >= n THEN <<>>
    ELSE RowTaps(start_ip, row_length, half_hex, j, i, jp, 0)
             \o CellTaps(n, start_ip, row_length, half_hex, j, i, jp + 1)

Taps(st, j, i) == CellTaps(st.n, st.start_ip, st.row_length, st.half_hex, j, i, 0)

\* numpy indexing of an axis of the given size: a negative index counts from the end
NpIndex(k, size) == IF k < 0 THEN k + size ELSE k

IndexOk(k, size) == k >= -size /\ k < size

\* v = tm_z[j_s, i_s]
ReadZ(tm_z, e_nj, e_ni, j_s, i_s) == tm_z[<<NpIndex(j_s, e_nj), NpIndex(i_s, e_ni)>>]

\* mutant of AccTap: a NaN sample is accumulated like any other
AccTapUnchecked(acc, v, s) == <<FAdd(acc[1], FMul(v, s)), FAdd(acc[2], s)>>

\* one tap: if not np.isnan(v): ws += s; a += v * s.  acc is <<a, ws>>
AccTap(acc, v, s) ==
    IF ~isnan(v) THEN <<FAdd(acc[1], FMul(v, s)), FAdd(acc[2], s)>> ELSE acc

RECURSIVE AccTaps(_, _, _, _, _, _)
AccTaps(taps, k, tm_z, e_nj, e_ni, acc) ==
    IF k > Len(taps) THEN acc
    ELSE AccTaps(taps, k + 1, tm_z, e_nj, e_ni,
                 AccTap(acc, ReadZ(tm_z, e_nj, e_ni, taps[k].j_s, taps[k].i_s), taps[k].s))

\* a and ws of output cell (j, i) after the jp loop
RECURSIVE CellAcc(_, _, _, _, _, _, _, _)
CellAcc(st, tm_z, e_nj, e_ni, j, i, jp, acc) ==
    IF jp >= st.n THEN acc
    ELSE CellAcc(st, tm_z, e_nj, e_ni, j, i, jp + 1,
                 AccTaps(RowTaps(st.start_ip, st.row_length, st.half_hex, j, i, jp, 0),
                         1, tm_z, e_nj, e_ni, acc))

\* ws != 0.0 (true of NaN)
NonZero(ws) == isnan(ws) \/ ws[1] # 0

\* the value left in applied[j, i]: a / ws if ws != 0.0, else the NaN it was filled with
CellValue(st, tm_z, e_nj, e_ni, j, i) ==
    LET acc == CellAcc(st, tm_z, e_nj, e_ni, j, i, 0, <<float(0), float(0)>>)
    IN  IF NonZero(acc[2]) THEN FDiv(acc[1], acc[2]) ELSE NaN

\* mutant of Padded: the border is filled with 0.0 whatever the mode
PaddedWithZero(mesh, border, fill) ==
    [rc \in (0 .. mesh.nj + 2 * border - 1) \X (0 .. mesh.ni + 2 * border - 1) |->
        IF /\ rc[1] >= border /\ rc[1] < border + mesh.nj
           /\ rc[2] >= border /\ rc[2] < border + mesh.ni
        THEN mesh.z[<<rc[1] - border, rc[2] - border>>]
        ELSE float(0)]

\* z_values: full of fill, the tri mesh z values copied into the interior
Padded(mesh, border, fill) ==
    [rc \in (0 .. mesh.nj + 2 * border - 1) \X (0 .. mesh.ni + 2 * border - 1) |->
        IF /\ rc[1] >= border /\ rc[1] < border + mesh.nj
           /\ rc[2] >= border /\ rc[2] < border + mesh.ni
        THEN mesh.z[<<rc[1] - border, rc[2] - border>>]
        ELSE fill]

\* the output rows of the j loop, and the output columns of the i loop
OutRows(border, onj) == border .. border + onj - 1

OutCols(border, oni) == border .. border + oni - 1

\* applied after apply_stencil_nanmean has run the whole j loop
ApplyStencilNanmean(st, tm_z, border, onj, oni) ==
    [rc \in (0 .. onj + 2 * border - 1) \X (0 .. oni + 2 * border - 1) |->
        IF rc[1] \in OutRows(border, onj) /\ rc[2] \in OutCols(border, oni)
        THEN CellValue(st, tm_z, onj + 2 * border, oni + 2 * border, rc[1], rc[2])
        ELSE NaN]

\* some read of the loops falls outside the padded array: numpy raises IndexError
ReadsOutside(st, border, onj, oni) ==
    \E j \in OutRows(border, onj), i \in OutCols(border, oni) :
        LET taps == Taps(st, j, i)
        IN  \E k \in 1 .. Len(taps) :
                \/ ~IndexOk(taps[k].j_s, onj + 2 * border)
                \/ ~IndexOk(taps[k].i_s, oni + 2 * border)

\* mutant of NewTriMesh: z_values = applied[:nj, :ni], the slice not moved past the border
NewTriMeshUnshifted(mesh, applied, border) ==
    [nj           |-> mesh.nj,
     ni           |-> mesh.ni,
     t_side       |-> mesh.t_side,
     origin       |-> mesh.origin,
     z_uom        |-> mesh.z_uom,
     surface_role |-> mesh.surface_role,
     crs_uuid     |-> mesh.crs_uuid,
     z            |-> [c \in (0 .. mesh.nj - 1) \X (0 .. mesh.ni - 1) |-> applied[c]]]

\* rqs.TriMesh(...) with z_values = applied[border:border + nj, border:border + ni]
NewTriMesh(mesh, applied, border) ==
    [nj           |-> mesh.nj,
     ni           |-> mesh.ni,
     t_side       |-> mesh.t_side,
     origin       |-> mesh.origin,
     z_uom        |-> mesh.z_uom,
     surface_role |-> mesh.surface_role,
     crs_uuid     |-> mesh.crs_uuid,
     z            |-> [c \in (0 .. mesh.nj - 1) \X (0 .. mesh.ni - 1) |->
                          applied[<<c[1] + border, c[2] + border>>]]]

NoMesh == [nj |-> 0]

(***************************************************************************)
(* State.                                                                  *)
(***************************************************************************)
VARIABLES
    args,       \* the arguments of the last constructor call
    stencil,    \* the TriMeshStencil the last constructor call returned, NoStencil if it raised
    warned,     \* whether the last constructor call logged the size warning
    tri_mesh,   \* the tri mesh the caller holds and passes to apply
    handle_nan, \* the handle_nan argument of the last apply call
    tm,         \* the TriMesh the last apply call returned, NoMesh if it raised
    raised,     \* the exception the last call ended in, "none" if it returned
    par         \* the run of apply_stencil_nanmean with one worker per output row, ParIdle if none

vars == <<args, stencil, warned, tri_mesh, handle_nan, tm, raised, par>>

\* entries of the enumerated patterns
PatVals == {NaN, float(-1), float(0), float(1)}

Patterns == UNION {[0 .. len - 1 -> PatVals] : len \in 0 .. MaxN}

\* long patterns around the warning threshold: all zero, or a single one at the centre or
\* in the outermost ring
LongPatterns ==
    UNION {{[k \in 0 .. len - 1 |-> float(0)],
            [k \in 0 .. len - 1 |-> IF k = 0 THEN float(1) ELSE float(0)],
            [k \in 0 .. len - 1 |-> IF k = len - 1 THEN float(1) ELSE float(0)]} :
           len \in {LargePattern, LargePattern + 1}}

NormVals == {None, float(0), float(2), float(-1)}

\* the z values of a mesh: cell (j, i) holds j * ni + i, or NaN where missing
MeshZ(nj, ni, missing) ==
    [c \in (0 .. nj - 1) \X (0 .. ni - 1) |->
        IF c \in missing THEN NaN ELSE float(c[1] * ni + c[2])]

\* the sets of missing cells enumerated: none, all, a single one, all but a single one
MissingSets(nj, ni) ==
    LET cells == (0 .. nj - 1) \X (0 .. ni - 1)
    IN  {{}, cells} \cup {{c} : c \in cells} \cup {cells \ {c} : c \in cells}

MeshesUpTo(maxnj, maxni) ==
    {[nj |-> nj, ni |-> ni, t_side |-> float(10), origin |-> <<float(0), float(0), float(0)>>,
      z_uom |-> "m", surface_role |-> "map", crs_uuid |-> "crs", z |-> MeshZ(nj, ni, missing)] :
        <<nj, ni, missing>> \in
            UNION {{<<a, b, m>> : m \in MissingSets(a, b)} : <<a, b>> \in (1 .. maxnj) \X (1 .. maxni)}}

Meshes == MeshesUpTo(MaxNj, MaxNi)

ParIdle == [phase |-> "idle"]

\* no constructor call made yet
NoArgs == [called |-> FALSE]

\* TriMeshStencil(pattern, normalise).  A run constructs one stencil and then reuses it:
\* the call is made once, and np.array(pattern) copies, so the caller's pattern stays as passed
Build(pattern, normalise) ==
    /\ args = NoArgs
    /\ args' = [called |-> TRUE, pattern |-> pattern, normalise |-> normalise]
    /\ IF PatternAccepted(pattern, normalise)
       THEN /\ stencil' = NewStencil(pattern, normalise)
            /\ raised' = "none"
            /\ warned' = LargeWarning(pattern)
       ELSE /\ stencil' = NoStencil
            /\ raised' = "AssertionError"
            /\ warned' = (PyLen(pattern) > 1
                          /\ (~ \E i \in DOMAIN pattern : isnan(pattern[i]))
                          /\ LargeWarning(pattern))
    /\ UNCHANGED <<tri_mesh, handle_nan, tm, par>>

\* mutant of ApplyResult: handle_nan = False falls back to the nanmean
ApplyResultFallback(st, mesh, hn) ==
    LET border == Border(st.n)
    IN  [tm     |-> NewTriMesh(mesh,
                               ApplyStencilNanmean(st, Padded(mesh, border, NaN), border,
                                                   mesh.nj, mesh.ni),
                               border),
         raised |-> "none"]

\* what stencil.apply(tri_mesh, handle_nan) ends in: the tri mesh returned, or the exception
ApplyResult(st, mesh, hn) ==
    LET border == Border(st.n)
        z_values == Padded(mesh, border, IF hn THEN NaN ELSE float(0))
    IN  IF hn
        THEN IF ReadsOutside(st, border, mesh.nj, mesh.ni)
             THEN [tm |-> NoMesh, raised |-> "IndexError"]
             ELSE [tm     |-> NewTriMesh(mesh,
                                         ApplyStencilNanmean(st, z_values, border, mesh.nj, mesh.ni),
                                         border),
                   raised |-> "none"]
        ELSE [tm |-> NoMesh, raised |-> "NotImplementedError"]

\* mutant of Apply: the result is also written back into the z values of the input tri mesh
ApplyInPlace(hn) ==
    /\ stencil.built
    /\ handle_nan' = hn
    /\ LET r == ApplyResult(stencil, tri_mesh, hn)
       IN  /\ tm' = r.tm /\ raised' = r.raised
           /\ tri_mesh' = IF r.tm # NoMesh THEN [tri_mesh EXCEPT !.z = r.tm.z] ELSE tri_mesh
    /\ UNCHANGED <<args, stencil, warned, par>>

\* stencil.apply(tri_mesh, handle_nan)
Apply(hn) ==
    /\ stencil.built
    /\ handle_nan' = hn
    /\ LET r == ApplyResult(stencil, tri_mesh, hn)
       IN  tm' = r.tm /\ raised' = r.raised
    /\ UNCHANGED <<args, stencil, warned, tri_mesh, par>>

Init ==
    /\ args = NoArgs
    /\ stencil = NoStencil
    /\ warned = FALSE
    /\ tri_mesh \in Meshes
    /\ handle_nan = TRUE
    /\ tm = NoMesh
    /\ raised = "none"
    /\ par = ParIdle

\* the patterns and normalise values the stencils applied to meshes are built from
\* (per length: all zero, all one, a single one at each index; and the signed patterns
\* of the shortest length)
ApplyPatterns ==
    UNION {{[k \in 0 .. len - 1 |-> float(0)], [k \in 0 .. len - 1 |-> float(1)]}
               \cup {[k \in 0 .. len - 1 |-> IF k = x THEN float(1) ELSE float(0)] : x \in 0 .. len - 1} :
           len \in 2 .. MaxN}
        \cup [0 .. 1 -> {float(-1), float(1)}]

ApplyNormVals == {None, float(2)}

Construct == \E pattern \in ApplyPatterns, normalise \in ApplyNormVals : Build(pattern, normalise)

ApplyNanmean == Apply(TRUE)

ApplyExact == Apply(FALSE)

Next == Construct \/ ApplyNanmean \/ ApplyExact

Spec == Init /\ [][Next]_vars

(***************************************************************************)
(* Construction alone, over a wider family of patterns.                    *)
(***************************************************************************)
InitBuild ==
    /\ args = NoArgs
    /\ stencil = NoStencil
    /\ warned = FALSE
    /\ tri_mesh \in {m \in Meshes : m.nj = 1 /\ m.ni = 1 /\ ~isnan(m.z[<<0, 0>>])}
    /\ handle_nan = TRUE
    /\ tm = NoMesh
    /\ raised = "none"
    /\ par = ParIdle

BuildAny == \E pattern \in Patterns \cup LongPatterns, normalise \in NormVals : Build(pattern, normalise)

NextBuild == BuildAny

SpecBuild == InitBuild /\ [][NextBuild]_vars

(***************************************************************************)
(* apply_stencil_nanmean with the j loop as a parallel range: one worker   *)
(* per output row j, each running the i, jp and ip loops of its row with   *)
(* its own a and ws.  A step of a worker is one iteration of the jp loop,  *)
(* or the final write of a cell.                                           *)
(***************************************************************************)
\* mutant of WriteCell: the row index rounded down to an even row
WriteCellEvenRow(j, i) == <<j - (j % 2), i>>

\* the cell of applied the worker of row j writes for column i
WriteCell(j, i) == <<j, i>>

ParWorker(i) == [i |-> i, jp |-> 0, acc |-> <<float(0), float(0)>>]

\* apply has built z_values and applied, and hands the rows to the workers
ParBegin ==
    /\ stencil.built
    /\ par.phase = "idle"
    /\ LET border == Border(stencil.n)
       IN  par' = [phase   |-> "running",
                   border  |-> border,
                   tm_z    |-> Padded(tri_mesh, border, NaN),
                   applied |-> [rc \in (0 .. tri_mesh.nj + 2 * border - 1)
                                          \X (0 .. tri_mesh.ni + 2 * border - 1) |-> NaN],
                   writers |-> [rc \in (0 .. tri_mesh.nj + 2 * border - 1)
                                          \X (0 .. tri_mesh.ni + 2 * border - 1) |-> {}],
                   w       |-> [j \in OutRows(border, tri_mesh.nj) |-> ParWorker(border)]]
    /\ handle_nan' = TRUE
    /\ UNCHANGED <<args, stencil, warned, tri_mesh, tm, raised>>

\* the worker of row j runs the ip loop of its current cell for its current jp
ParRow(j) ==
    /\ par.phase = "running"
    /\ par.w[j].i < par.border + tri_mesh.ni
    /\ par.w[j].jp < stencil.n
    /\ par' = [par EXCEPT
                  !.w[j].acc = AccTaps(RowTaps(stencil.start_ip, stencil.row_length, stencil.half_hex,
                                               j, par.w[j].i, par.w[j].jp, 0),
                                       1, par.tm_z, tri_mesh.nj + 2 * par.border,
                                       tri_mesh.ni + 2 * par.border, @),
                  !.w[j].jp = @ + 1]
    /\ UNCHANGED <<args, stencil, warned, tri_mesh, handle_nan, tm, raised>>

\* the worker of row j ends its jp loop: if ws != 0.0 it writes a / ws; then the next i
ParWrite(j) ==
    /\ par.phase = "running"
    /\ par.w[j].i < par.border + tri_mesh.ni
    /\ par.w[j].jp = stencil.n
    /\ LET acc == par.w[j].acc
           cell == WriteCell(j, par.w[j].i)
       IN  par' = [par EXCEPT
                     !.applied = IF NonZero(acc[2]) THEN [@ EXCEPT ![cell] = FDiv(acc[1], acc[2])] ELSE @,
                     !.writers = IF NonZero(acc[2]) THEN [@ EXCEPT ![cell] = @ \cup {j}] ELSE @,
                     !.w[j] = ParWorker(par.w[j].i + 1)]
    /\ UNCHANGED <<args, stencil, warned, tri_mesh, handle_nan, tm, raised>>

\* every worker has finished its row: apply builds the new tri mesh from applied
ParEnd ==
    /\ par.phase = "running"
    /\ \A j \in DOMAIN par.w : par.w[j].i = par.border + tri_mesh.ni
    /\ tm' = NewTriMesh(tri_mesh, par.applied, par.border)
    /\ raised' = "none"
    /\ par' = [par EXCEPT !.phase = "done"]
    /\ UNCHANGED <<args, stencil, warned, tri_mesh, handle_nan>>

\* largest row and column count of the meshes of the parallel runs
ParMaxNj == 2

ParMaxNi == 2

\* the stencils of the parallel runs: the shortest patterns with a non-zero ring weight
ParPatterns == {p \in ApplyPatterns : PyLen(p) = 2 /\ ~isclose0(p[1])}

InitPar ==
    /\ args = NoArgs
    /\ stencil = NoStencil
    /\ warned = FALSE
    /\ tri_mesh \in {m \in MeshesUpTo(ParMaxNj, ParMaxNi) : m.nj = ParMaxNj /\ m.ni = ParMaxNi}
    /\ handle_nan = TRUE
    /\ tm = NoMesh
    /\ raised = "none"
    /\ par = ParIdle

ConstructPar == \E pattern \in ParPatterns, normalise \in ApplyNormVals : Build(pattern, normalise)

ParRowAny == par.phase = "running" /\ \E j \in DOMAIN par.w : ParRow(j)

ParWriteAny == par.phase = "running" /\ \E j \in DOMAIN par.w : ParWrite(j)

NextPar == ConstructPar \/ ParBegin \/ ParRowAny \/ ParWriteAny \/ ParEnd

SpecPar == InitPar /\ [][NextPar]_vars

(***************************************************************************)
(* The triangular lattice: rows of points, odd rows shifted half a column  *)
(* towards higher i.  Positions are lattice coordinates (row, column).     *)
(***************************************************************************)
\* axial column of the lattice point (j, i): the column counted along the lattice direction
\* that climbs one row per half column
AxialQ(j, i) == i - ((j - (j % 2)) \div 2)

\* hex-graph distance of two lattice points
HexDist(j1, i1, j2, i2) ==
    LET dq == AxialQ(j1, i1) - AxialQ(j2, i2)
        dr == j1 - j2
    IN  (Abs(dq) + Abs(dr) + Abs(dq + dr)) \div 2

\* the lattice points within distance r of (j, i)
HexDisc(j, i, r) ==
    {p \in (j - r .. j + r) \X (i - r .. i + r) : HexDist(p[1], p[2], j, i) <= r}

\* the output cells of an apply call on the mesh the caller holds, as indices of the padded arrays
OutCells == OutRows(Border(stencil.n), tri_mesh.nj) \X OutCols(Border(stencil.n), tri_mesh.ni)

\* the lattice coordinate of an index of the padded arrays
Unpad(k) == k - Border(stencil.n)

\* the lattice points under the taps
TapPoints(taps) == {<<Unpad(taps[k].j_s), Unpad(taps[k].i_s)>> : k \in 1 .. Len(taps)}

(***************************************************************************)
(* C1.  Radial symmetry of the applied kernel: once apply has run, for     *)
(* every output cell (j, i) each tap it read carries the weight            *)
(* pattern[k], k the hex-graph distance of the tapped lattice point from   *)
(* the cell, and the taps of the cell are exactly the 1 + 3n(n-1) lattice  *)
(* points within distance n - 1, each read once.                           *)
(***************************************************************************)
RadialCell(c) ==
    LET taps == Taps(stencil, c[1], c[2])
        n == stencil.n
    IN  /\ \A k \in 1 .. Len(taps) :
               LET d == HexDist(Unpad(taps[k].j_s), Unpad(taps[k].i_s), Unpad(c[1]), Unpad(c[2]))
               IN  d <= n - 1 /\ taps[k].s = stencil.pattern[d]
        /\ Len(taps) = 1 + 3 * n * (n - 1)
        /\ TapPoints(taps) = HexDisc(Unpad(c[1]), Unpad(c[2]), n - 1)

C1_RadialSymmetry == tm # NoMesh => \A c \in OutCells : RadialCell(c)

\* apply has run with the longest pattern on a mesh with rows of both parities
C1_Witness == tm # NoMesh /\ stencil.n = MaxN /\ tri_mesh.nj >= 2 /\ stencil.pattern[MaxN - 1] # stencil.pattern[0]

(***************************************************************************)
(* C10.  In-range reads: every read of the loops of an apply call is in    *)
(* range of the padded array (rows in [0, nj + 2 border), columns in       *)
(* [0, ni + 2 border), never negative), and the stencil buffer is read     *)
(* only at ip < row_length[jp].                                            *)
(***************************************************************************)
InRangeCell(c) ==
    LET taps == Taps(stencil, c[1], c[2])
        border == Border(stencil.n)
    IN  \A k \in 1 .. Len(taps) :
            /\ taps[k].j_s >= 0 /\ taps[k].j_s < tri_mesh.nj + 2 * border
            /\ taps[k].i_s >= 0 /\ taps[k].i_s < tri_mesh.ni + 2 * border
            /\ taps[k].ip < stencil.row_length[taps[k].jp]
            /\ ~isnan(taps[k].s)

C10_InRangeReads ==
    (stencil.built /\ (tm # NoMesh \/ raised = "IndexError")) =>
        (raised = "none" /\ \A c \in OutCells : InRangeCell(c))

\* apply has run with an odd pattern length (border = n + 1) on the largest mesh
C10_Witness == tm # NoMesh /\ stencil.n % 2 = 1 /\ tri_mesh.nj = MaxNj /\ tri_mesh.ni = MaxNi

(***************************************************************************)
(* C2.  Normalization sum: a stencil built with normalise = S has          *)
(* pattern[0] + sum over k in 1 .. n-1 of 6k * pattern[k] = S, and the     *)
(* weights of the full stencil (row 0 of the half hex once, every further  *)
(* row twice, each row up to its row_length) sum to S.                     *)
(***************************************************************************)
RingSum(st) ==
    SumRange([k \in 0 .. st.n - 1 |->
                 IF k = 0 THEN st.pattern[0] ELSE FMul(float(6 * k), st.pattern[k])],
             0, st.n - 1)

FullStencilSum(st) ==
    SumRange([jp \in 0 .. st.n - 1 |->
                 LET row == SumRange(st.half_hex[jp], 0, st.row_length[jp] - 1)
                 IN  IF jp = 0 THEN row ELSE FAdd(row, row)],
             0, st.n - 1)

C2_NormalizationSum ==
    (stencil.built /\ args.normalise # None) =>
        /\ RingSum(stencil) = args.normalise
        /\ FullStencilSum(stencil) = args.normalise

\* a normalised stencil built from a pattern whose raw sum differs from the target
C2_Witness ==
    /\ stencil.built /\ args.normalise = float(-1) /\ stencil.n = MaxN
    /\ npsum(args.pattern, MaxN) = float(3)

(***************************************************************************)
(* C7.  Build-time validation: with normalise absent or nonzero, the       *)
(* constructor fails exactly when the pattern has fewer than 2 entries, or *)
(* holds a NaN, or normalise is given and the raw pattern sum is zero; a   *)
(* failed call returns no stencil; a call that succeeds logs the size      *)
(* warning exactly when the pattern is longer than 50.                     *)
(***************************************************************************)
HasNaN(pattern) == \E i \in DOMAIN pattern : pattern[i] = NaN

MustFail(pattern, normalise) ==
    \/ PyLen(pattern) < 2
    \/ HasNaN(pattern)
    \/ normalise # None /\ npsum(pattern, PyLen(pattern)) = float(0)

C7_BuildValidation ==
    (args.called /\ args.normalise # float(0)) =>
        /\ MustFail(args.pattern, args.normalise) <=> raised = "AssertionError"
        /\ raised = "AssertionError" <=> stencil = NoStencil
        /\ raised = "none" => /\ stencil.built /\ stencil.n = PyLen(args.pattern)
                              /\ warned <=> PyLen(args.pattern) > 50
        /\ PyLen(args.pattern) = 1 => stencil = NoStencil

\* a pattern of 51 entries has been built into a stencil, with the warning
C7_Witness == stencil.built /\ stencil.n = 51 /\ warned /\ args.normalise # None

(***************************************************************************)
(* The source samples under the taps of an output cell, read off the       *)
(* tri mesh the caller holds: a tap outside the lattice lands on the NaN   *)
(* border.                                                                 *)
(***************************************************************************)
InLattice(p) == p[1] \in 0 .. tri_mesh.nj - 1 /\ p[2] \in 0 .. tri_mesh.ni - 1

SourceSample(tap) ==
    LET p == <<Unpad(tap.j_s), Unpad(tap.i_s)>>
    IN  IF InLattice(p) THEN tri_mesh.z[p] ELSE NaN

ValidTaps(taps) == {k \in 1 .. Len(taps) : ~isnan(SourceSample(taps[k]))}

\* the sum of the weights of the non-missing taps
WeightTotal(taps) ==
    SumRange([k \in 1 .. Len(taps) |->
                 IF isnan(SourceSample(taps[k])) THEN float(0) ELSE taps[k].s],
             1, Len(taps))

\* the sum of value * weight over the non-missing taps
WeightedSum(taps) ==
    SumRange([k \in 1 .. Len(taps) |->
                 IF isnan(SourceSample(taps[k])) THEN float(0)
                 ELSE FMul(SourceSample(taps[k]), taps[k].s)],
             1, Len(taps))

\* the z value of the returned tri mesh at the output cell c of the padded arrays
Out(c) == tm.z[<<Unpad(c[1]), Unpad(c[2])>>]

(***************************************************************************)
(* C3.  Sparse coverage yields a defined value: an output cell with at     *)
(* least one tap on a non-missing sample, and whose non-missing taps have  *)
(* a weight total other than zero, receives the non-missing value          *)
(* weightedSum / weightTotal taken over its non-missing taps.              *)
(***************************************************************************)
DefinedMean(c) ==
    LET taps == Taps(stencil, c[1], c[2])
    IN  /\ ~isnan(Out(c))
        /\ Out(c) = FDiv(WeightedSum(taps), WeightTotal(taps))

C3_SparseCoverage ==
    tm # NoMesh =>
        \A c \in OutCells :
            LET taps == Taps(stencil, c[1], c[2])
            IN  (ValidTaps(taps) # {} /\ WeightTotal(taps) # float(0)) => DefinedMean(c)

\* the claim as first stated: every output cell with a tap on a non-missing sample is defined
C3_Original ==
    tm # NoMesh =>
        \A c \in OutCells :
            ValidTaps(Taps(stencil, c[1], c[2])) # {} => DefinedMean(c)

\* a cell with both missing and non-missing taps inside the lattice got a value that is
\* none of the input values
C3_Witness ==
    /\ tm # NoMesh
    /\ \E c \in OutCells :
           LET taps == Taps(stencil, c[1], c[2])
           IN  /\ ValidTaps(taps) # {}
               /\ WeightTotal(taps) # float(0)
               /\ \E k \in 1 .. Len(taps) :
                      /\ InLattice(<<Unpad(taps[k].j_s), Unpad(taps[k].i_s)>>)
                      /\ isnan(SourceSample(taps[k]))
               /\ \A p \in DOMAIN tri_mesh.z : tri_mesh.z[p] # Out(c)

(***************************************************************************)
(* C5.  Missing propagation: an output cell all of whose taps land on a    *)
(* missing sample (a NaN of the lattice, or the NaN border) is NaN in the  *)
(* returned tri mesh.                                                      *)
(***************************************************************************)
C5_MissingPropagation ==
    tm # NoMesh =>
        \A c \in OutCells :
            ValidTaps(Taps(stencil, c[1], c[2])) = {} => isnan(Out(c))

\* a lattice with a non-missing sample, and an output cell out of its reach
C5_Witness ==
    /\ tm # NoMesh
    /\ \E p \in DOMAIN tri_mesh.z : ~isnan(tri_mesh.z[p])
    /\ \E c \in OutCells : ValidTaps(Taps(stencil, c[1], c[2])) = {} /\ isnan(Out(c))

(***************************************************************************)
(* C4.  Identity: for a pattern whose ring weights (index >= 1) are all    *)
(* zero and whose centre weight is not zero, apply returns at every fully  *)
(* interior cell (at least n - 1 rows and columns from every lattice edge) *)
(* exactly the input z value of the cell.                                  *)
(***************************************************************************)
RingsZero == \A k \in 1 .. stencil.n - 1 : stencil.pattern[k] = float(0)

\* the fully interior cells, in lattice coordinates
Interior ==
    (stencil.n - 1 .. tri_mesh.nj - stencil.n) \X (stencil.n - 1 .. tri_mesh.ni - stencil.n)

C4_Identity ==
    (tm # NoMesh /\ RingsZero /\ stencil.pattern[0] # float(0)) =>
        \A p \in Interior : tm.z[p] = tri_mesh.z[p]

\* the claim as first stated: any centre weight
C4_Original ==
    (tm # NoMesh /\ RingsZero) => \A p \in Interior : tm.z[p] = tri_mesh.z[p]

\* a normalised centre-only stencil applied to a lattice with a non-missing interior cell
C4_Witness ==
    /\ tm # NoMesh /\ RingsZero /\ stencil.pattern[0] = float(2)
    /\ \E p \in Interior : ~isnan(tri_mesh.z[p]) /\ tm.z[p] = tri_mesh.z[p]

SameGeometry(a, b) ==
    /\ a.nj = b.nj /\ a.ni = b.ni /\ a.t_side = b.t_side /\ a.origin = b.origin
    /\ a.z_uom = b.z_uom /\ a.surface_role = b.surface_role /\ a.crs_uuid = b.crs_uuid
    /\ DOMAIN a.z = DOMAIN b.z

C8_ApplyReadOnly ==
    [][tm' # NoMesh =>
           /\ stencil' = stencil
           /\ tri_mesh' = tri_mesh
           /\ SameGeometry(tm', tri_mesh)
           /\ tm # NoMesh => tm' = tm]_vars

\* apply has returned a tri mesh that differs from its input, which is as it was
C8_Witness ==
    /\ tm # NoMesh /\ tm.z # tri_mesh.z /\ SameGeometry(tm, tri_mesh)
    /\ tri_mesh.nj # tri_mesh.ni
    /\ tri_mesh \in Meshes

(***************************************************************************)
(* C9.  Row-parallel safety: with one worker per output row, in any        *)
(* interleaving, the padded input and the stencil stay as built, every     *)
(* written cell of applied is written by the worker of its own row only,   *)
(* and the tri mesh returned equals the one the sequential loop returns.   *)
(***************************************************************************)
C9_RowParallel ==
    par.phase # "idle" =>
        /\ stencil = NewStencil(args.pattern, args.normalise)
        /\ par.tm_z = Padded(tri_mesh, Border(stencil.n), NaN)
        /\ \A rc \in DOMAIN par.writers :
               /\ par.writers[rc] \subseteq {rc[1]}
               /\ par.writers[rc] # {} => rc \in OutCells
        /\ par.phase = "done" => tm = ApplyResult(stencil, tri_mesh, TRUE).tm

\* a finished parallel run in which workers of different rows each wrote a defined value
C9_Witness ==
    /\ par.phase = "done"
    /\ \E a, b \in DOMAIN par.writers :
           a[1] # b[1] /\ par.writers[a] # {} /\ par.writers[b] # {}
    /\ \E p \in DOMAIN tm.z : isnan(tm.z[p])

====
